---- MODULE Spec2Model ----
(***************************************************************************)
(* circle-to-task: conversion of a CircleCI configuration into a minimized *)
(* CircleCI configuration plus a go-task Taskfile.                         *)
(*                                                                         *)
(* Go strings are TLA+ strings (TLC evaluates Len, \o, SubSeq and Tail on  *)
(* them); a Go interface{} value is a tagged record: Nil, Str(s), Map(m)   *)
(* or List(l).  A Go map is a function whose DOMAIN is its key set; the    *)
(* unspecified iteration order of a Go map is a nondeterministic choice.   *)
(***************************************************************************)
EXTENDS Integers, Sequences, FiniteSets, TLC

VARIABLES
    config,         \* convertConfig: the input CircleCIConfig
    pc,             \* convertConfig: position in the conversion
    commandCounts,  \* analyzePatterns: normalized command -> occurrences
    countsTodo,     \* analyzePatterns: keys of commandCounts not yet ranged over
    patterns,       \* analyzePatterns: the pattern tasks, by derived name
    tasks,          \* convertConfig: taskfile.Tasks
    jobsTodo,       \* convertConfig: jobs not yet ranged over
    newConfig,      \* convertConfig: the minimized CircleCIConfig
    nCmd,           \* normalizeCommand: a command text
    nVariant,       \* normalizeCommand: nCmd with its whitespace re-placed
    nResult,        \* normalizeCommand: the results, once applied
    taskEnv,        \* addLocalEnvDefaults: taskfile.Env
    previous,       \* what an earlier run of convertConfig on config returned
    pSegs,          \* convertParameterSyntax: the pieces of a command text
    pResult,        \* convertParameterSyntax: the result, once applied
    mPc,            \* main: position in main
    mEnv,           \* main: the flags given and what the file system answers
    mExit,          \* main: the exit status of the process, once it ended
    mOut,           \* main: what was printed and logged, in order
    mFiles,         \* main: the directory and the files created or written
    pWork,          \* convertParameterSyntax: the loop's working string
    gWords,         \* generateTaskName: the tokens of a command
    gResult,        \* generateTaskName: the result, once applied
    aPc,            \* extractAllCommands: position in the function
    aCounts,        \* extractAllCommands: commandCounts
    aTodo,          \* extractAllCommands: keys of commandCounts not yet ranged over
    aCommands       \* extractAllCommands: the slice commands

vars == <<config, pc, commandCounts, countsTodo, patterns, tasks, jobsTodo,
          newConfig, nCmd, nVariant, nResult, taskEnv, previous, pSegs, pResult,
          mPc, mEnv, mExit, mOut, mFiles, pWork, gWords, gResult, aPc, aCounts,
          aTodo, aCommands>>

convVars == <<config, pc, commandCounts, countsTodo, patterns, tasks, jobsTodo,
              newConfig, taskEnv>>

normVars == <<nCmd, nVariant, nResult>>

paramVars == <<pSegs, pResult, pWork>>

mainVars == <<mPc, mEnv, mExit, mOut, mFiles>>

nameVars == <<gWords, gResult>>

reportVars == <<aPc, aCounts, aTodo, aCommands>>

(***************************************************************************)
(* Bounds of the model.                                                    *)
(***************************************************************************)
MaxCmdLen == 4

MaxSteps == 2

MaxSegments == 3

(***************************************************************************)
(* Go values.                                                              *)
(***************************************************************************)
Nil == [t |-> "nil"]

Str(s) == [t |-> "str", v |-> s]

Map(m) == [t |-> "map", v |-> m]

List(l) == [t |-> "list", v |-> l]

IsStr(x) == x.t = "str"

IsMap(x) == x.t = "map"

EmptyMap == [k \in {} |-> Nil]

(***************************************************************************)
(* The strings package.                                                    *)
(***************************************************************************)
Char(s, i) == SubSeq(s, i, i)

IsSpace(c) == c \in {" ", "\n", "\t", "\r"}

RECURSIVE TrimLeft(_)
TrimLeft(s) ==
    IF s = "" THEN ""
    ELSE IF IsSpace(Char(s, 1)) THEN TrimLeft(Tail(s)) ELSE s

RECURSIVE TrimRight(_)
TrimRight(s) ==
    IF s = "" THEN ""
    ELSE IF IsSpace(Char(s, Len(s))) THEN TrimRight(SubSeq(s, 1, Len(s) - 1))
         ELSE s

TrimSpace(s) == TrimRight(TrimLeft(s))

HasPrefix(s, prefix) ==
    /\ Len(prefix) <= Len(s)
    /\ SubSeq(s, 1, Len(prefix)) = prefix

\* strings.Index: the 0-based position of the first occurrence, or -1
RECURSIVE IndexFrom(_, _, _)
IndexFrom(s, sub, i) ==
    IF i + Len(sub) > Len(s) THEN -1
    ELSE IF SubSeq(s, i + 1, i + Len(sub)) = sub THEN i
         ELSE IndexFrom(s, sub, i + 1)

Index(s, sub) == IndexFrom(s, sub, 0)

Contains(s, sub) == Index(s, sub) >= 0

\* strings.ReplaceAll, for a non-empty old
RECURSIVE ReplaceAll(_, _, _)
ReplaceAll(s, old, new) ==
    IF s = "" THEN ""
    ELSE IF HasPrefix(s, old)
         THEN new \o ReplaceAll(SubSeq(s, Len(old) + 1, Len(s)), old, new)
         ELSE Char(s, 1) \o ReplaceAll(Tail(s), old, new)

\* strings.Fields: the maximal runs of non-space characters, in order
RECURSIVE FieldsFrom(_, _, _)
FieldsFrom(s, cur, acc) ==
    IF s = "" THEN (IF cur = "" THEN acc ELSE Append(acc, cur))
    ELSE IF IsSpace(Char(s, 1))
         THEN FieldsFrom(Tail(s), "", IF cur = "" THEN acc ELSE Append(acc, cur))
         ELSE FieldsFrom(Tail(s), cur \o Char(s, 1), acc)

Fields(s) == FieldsFrom(s, "", <<>>)

RECURSIVE Join(_, _)
Join(elems, sep) ==
    IF Len(elems) = 0 THEN ""
    ELSE IF Len(elems) = 1 THEN elems[1]
         ELSE elems[1] \o sep \o Join(Tail(elems), sep)

(***************************************************************************)
(* normalizeCommand                                                        *)
(***************************************************************************)
normalizeCommandNoCollapse(cmd) ==
    ReplaceAll(TrimSpace(cmd), "\n", " ")

normalizeCommand(cmd) ==
    Join(Fields(ReplaceAll(TrimSpace(cmd), "\n", " ")), " ")


(***************************************************************************)
(* strings.ToUpper and strings.ToLower, on the ASCII letters.              *)
(***************************************************************************)
LowerLetters == "abcdefghijklmnopqrstuvwxyz"

UpperLetters == "ABCDEFGHIJKLMNOPQRSTUVWXYZ"

UpperChar(c) ==
    IF \E i \in 1..26 : Char(LowerLetters, i) = c
    THEN Char(UpperLetters, CHOOSE i \in 1..26 : Char(LowerLetters, i) = c)
    ELSE c

LowerChar(c) ==
    IF \E i \in 1..26 : Char(UpperLetters, i) = c
    THEN Char(LowerLetters, CHOOSE i \in 1..26 : Char(UpperLetters, i) = c)
    ELSE c

RECURSIVE ToUpper(_)
ToUpper(s) == IF s = "" THEN "" ELSE UpperChar(Char(s, 1)) \o ToUpper(Tail(s))

RECURSIVE ToLower(_)
ToLower(s) == IF s = "" THEN "" ELSE LowerChar(Char(s, 1)) \o ToLower(Tail(s))

(***************************************************************************)
(* fmt: %d of a non-negative int, %v and %s of an interface{} value.       *)
(***************************************************************************)
Digits == "0123456789"

RECURSIVE Itoa(_)
Itoa(n) ==
    IF n < 10 THEN Char(Digits, n + 1)
    ELSE Itoa(n \div 10) \o Char(Digits, (n % 10) + 1)

RECURSIVE FmtV(_)
FmtV(x) ==
    CASE x.t = "str"  -> x.v
      [] x.t = "nil"  -> "<nil>"
      [] x.t = "list" ->
            "[" \o Join([i \in 1..Len(x.v) |-> FmtV(x.v[i])], " ") \o "]"
      [] OTHER        -> "map[]"

(***************************************************************************)
(* extractCommand: the command text of a run step, "" for any other step.  *)
(***************************************************************************)
extractCommand(step) ==
    IF ~IsMap(step) THEN ""
    ELSE IF "run" \notin DOMAIN step.v THEN ""
    ELSE LET run == step.v["run"] IN
         CASE IsStr(run) -> run.v
           [] IsMap(run) ->
                IF "command" \in DOMAIN run.v /\ IsStr(run.v["command"])
                THEN run.v["command"].v
                ELSE ""
           [] OTHER -> ""

(***************************************************************************)
(* convertStepToCommand.  The Go code ranges over the step's map and       *)
(* returns at the first key it sees: the result is the set of strings the  *)
(* iteration order can produce (one string for a single-key step).         *)
(***************************************************************************)
PayloadField(value, field) ==
    IsMap(value) /\ field \in DOMAIN value.v

convertMapEntry(key, value) ==
    CASE key = "checkout" -> "git checkout HEAD"
      [] key = "setup_remote_docker" ->
            "echo 'Skipping setup_remote_docker (CircleCI server only)'"
      [] key = "save_cache" ->
            IF PayloadField(value, "paths")
            THEN "# Local cache: would save " \o FmtV(value.v["paths"])
            ELSE "echo 'Skipping save_cache (CircleCI server only)'"
      [] key = "restore_cache" ->
            "echo 'Skipping restore_cache (CircleCI server only)'"
      [] key = "persist_to_workspace" ->
            IF PayloadField(value, "paths")
            THEN "mkdir -p ./workspace && cp -r " \o FmtV(value.v["paths"])
                 \o " ./workspace/"
            ELSE "mkdir -p ./workspace"
      [] key = "attach_workspace" -> "echo 'Using local workspace if available'"
      [] key = "store_artifacts" ->
            IF PayloadField(value, "path")
            THEN "mkdir -p ./artifacts && cp -r " \o FmtV(value.v["path"])
                 \o " ./artifacts/"
            ELSE "mkdir -p ./artifacts"
      [] key = "store_test_results" ->
            IF PayloadField(value, "path")
            THEN "mkdir -p ./test-results && cp -r " \o FmtV(value.v["path"])
                 \o " ./test-results/"
            ELSE "mkdir -p ./test-results"
      [] OTHER ->
            IF IsStr(value) THEN value.v
            ELSE "echo 'Custom step not converted: " \o key \o "'"

\* the string "checkout" treated as any other string
convertStepToCommandAnyString(step) ==
    IF IsStr(step)
    THEN {"task " \o step.v}
    ELSE IF ~IsMap(step) \/ DOMAIN step.v = {}
         THEN {"echo 'Unknown step type'"}
         ELSE {convertMapEntry(key, step.v[key]) : key \in DOMAIN step.v}

convertStepToCommand(step) ==
    IF IsStr(step)
    THEN (IF step.v = "checkout" THEN {"git checkout HEAD"}
          ELSE {"task " \o step.v})
    ELSE IF ~IsMap(step) \/ DOMAIN step.v = {}
         THEN {"echo 'Unknown step type'"}
         ELSE {convertMapEntry(key, step.v[key]) : key \in DOMAIN step.v}

(***************************************************************************)
(* isCommandInvocation: the first key of the step that is not a built-in   *)
(* step name, in the map's iteration order.                                *)
(***************************************************************************)
builtInSteps ==
    {"run", "checkout", "setup_remote_docker", "save_cache", "restore_cache",
     "persist_to_workspace", "attach_workspace", "store_artifacts",
     "store_test_results", "when", "unless"}

isCommandInvocation(step) ==
    IF ~IsMap(step) THEN {[name |-> "", ok |-> FALSE]}
    ELSE IF DOMAIN step.v \subseteq builtInSteps
         THEN {[name |-> "", ok |-> FALSE]}
         ELSE {[name |-> key, ok |-> TRUE] : key \in DOMAIN step.v \ builtInSteps}

(***************************************************************************)
(* convertParameterSyntax: the rewrite loop over "<< parameters.NAME >>".  *)
(***************************************************************************)
\* the rewrite applied to the first marker only
convertParameterSyntaxOnce(result) ==
    LET start == Index(result, "<< parameters.") IN
    IF start = -1 THEN result
    ELSE LET found == Index(SubSeq(result, start + 1, Len(result)), " >>") IN
         IF found = -1 THEN result
         ELSE LET end       == found + start
                  paramPart == SubSeq(result, start + 14 + 1, end)
                  paramName == ToUpper(paramPart)
              IN  SubSeq(result, 1, start) \o "{{." \o paramName \o "}}"
                  \o SubSeq(result, end + 3 + 1, Len(result))

RECURSIVE convertParameterSyntax(_)
convertParameterSyntax(result) ==
    LET start == Index(result, "<< parameters.") IN
    IF start = -1 THEN result
    ELSE LET found == Index(SubSeq(result, start + 1, Len(result)), " >>") IN
         IF found = -1 THEN result
         ELSE LET end       == found + start
                  paramPart == SubSeq(result, start + 14 + 1, end)
                  paramName == ToUpper(paramPart)
              IN  convertParameterSyntax(
                      SubSeq(result, 1, start) \o "{{." \o paramName \o "}}"
                      \o SubSeq(result, end + 3 + 1, Len(result)))

(***************************************************************************)
(* Tasks.                                                                  *)
(***************************************************************************)
Task(desc, cmds, deps, taskVars) ==
    [Desc |-> desc, Cmds |-> cmds, Deps |-> deps, Dir |-> "", Silent |-> FALSE,
     Vars |-> taskVars]

\* the loop over a parameter declaration list: NAME -> {{.NAME | default "D"}}
parameterVars(parameters) ==
    IF ~IsMap(parameters) THEN EmptyMap
    ELSE LET declared == {p \in DOMAIN parameters.v : IsMap(parameters.v[p])}
             defaultValue(p) ==
                 IF "default" \in DOMAIN parameters.v[p].v
                 THEN FmtV(parameters.v[p].v["default"])
                 ELSE ""
             paramOf(key) == CHOOSE p \in declared : ToUpper(p) = key
         IN  [key \in {ToUpper(p) : p \in declared} |->
                 "{{." \o key \o " | default \"" \o defaultValue(paramOf(key))
                 \o "\"}}"]

(***************************************************************************)
(* analyzePatterns                                                         *)
(***************************************************************************)
isCommonWord(word) ==
    ToLower(word) \in {"and", "or", "the", "a", "an", "with", "for", "to", "of",
                       "in"}

\* the words among the first three that are neither flags nor common words
RECURSIVE nameParts(_, _)
nameParts(words, i) ==
    IF i > Len(words) \/ i > 3 THEN <<>>
    ELSE IF ~HasPrefix(words[i], "-") /\ ~isCommonWord(words[i])
         THEN <<words[i]>> \o nameParts(words, i + 1)
         ELSE nameParts(words, i + 1)

generateTaskName(cmd) ==
    LET words == Fields(cmd)
        parts == nameParts(words, 1)
    IN  IF Len(words) = 0 THEN "common-task"
        ELSE IF Len(parts) = 0 THEN "common-task"
        ELSE Join(parts, "-")

\* the steps analyzePatterns counts: the steps of the jobs
countedStepsJobsAndCommands(cfg) ==
    UNION {{<<"job", j, i>> : i \in 1..Len(cfg.Jobs[j].Steps)} :
              j \in DOMAIN cfg.Jobs}
    \cup
    UNION {{<<"command", c, i>> : i \in 1..Len(cfg.Commands[c].Steps)} :
              c \in DOMAIN cfg.Commands}

countedSteps(cfg) ==
    UNION {{<<"job", j, i>> : i \in 1..Len(cfg.Jobs[j].Steps)} :
              j \in DOMAIN cfg.Jobs}

stepAt(cfg, at) ==
    IF at[1] = "job" THEN cfg.Jobs[at[2]].Steps[at[3]]
    ELSE cfg.Commands[at[2]].Steps[at[3]]

\* commandCounts after the counting loop
countCommands(cfg) ==
    LET counted == {at \in countedSteps(cfg) : extractCommand(stepAt(cfg, at)) # ""}
        normalizedAt(at) == normalizeCommand(extractCommand(stepAt(cfg, at)))
    IN  [cmd \in {normalizedAt(at) : at \in counted} |->
            Cardinality({at \in counted : normalizedAt(at) = cmd})]

patternTask(cmd, count) ==
    Task("Common task - used in " \o Itoa(count) \o " jobs", <<cmd>>, <<>>,
         EmptyMap)

\* findPatternTask: the pattern names whose command normalizes to `normalized`;
\* the Go loop returns the first one its iteration meets, "" when there is none
findPatternTask(normalized, patternMap) ==
    LET matching == {taskName \in DOMAIN patternMap :
                        /\ Len(patternMap[taskName].Cmds) > 0
                        /\ normalizeCommand(patternMap[taskName].Cmds[1]) = normalized}
    IN  IF matching = {} THEN {""} ELSE matching

(***************************************************************************)
(* generateTaskCallWithParams: "task NAME" followed by the KEY=value pairs *)
(* in the iteration order of the argument map.                             *)
(***************************************************************************)
paramOrders(S) ==
    {p \in [1..Cardinality(S) -> S] : \A x \in S : \E i \in DOMAIN p : p[i] = x}

\* the pairs with their keys as written in the step
generateTaskCallWithParamsKeysAsWritten(commandName, step) ==
    IF ~IsMap(step) THEN {"task " \o commandName}
    ELSE IF commandName \notin DOMAIN step.v THEN {"task " \o commandName}
    ELSE LET commandParams == step.v[commandName] IN
         IF ~IsMap(commandParams) THEN {"task " \o commandName}
         ELSE IF DOMAIN commandParams.v = {} THEN {"task " \o commandName}
         ELSE LET pair(paramName) ==
                      paramName \o "=" \o FmtV(commandParams.v[paramName])
              IN  {"task " \o commandName \o " "
                       \o Join([i \in DOMAIN order |-> pair(order[i])], " ") :
                   order \in paramOrders(DOMAIN commandParams.v)}

generateTaskCallWithParams(commandName, step) ==
    IF ~IsMap(step) THEN {"task " \o commandName}
    ELSE IF commandName \notin DOMAIN step.v THEN {"task " \o commandName}
    ELSE LET commandParams == step.v[commandName] IN
         IF ~IsMap(commandParams) THEN {"task " \o commandName}
         ELSE IF DOMAIN commandParams.v = {} THEN {"task " \o commandName}
         ELSE LET pair(paramName) ==
                      ToUpper(paramName) \o "=" \o FmtV(commandParams.v[paramName])
              IN  {"task " \o commandName \o " "
                       \o Join([i \in DOMAIN order |-> pair(order[i])], " ") :
                   order \in paramOrders(DOMAIN commandParams.v)}

(***************************************************************************)
(* convertJobToTask.  One step yields one command line or one dependency;  *)
(* stepOutcomes is the set of outcomes the map iteration orders allow.     *)
(***************************************************************************)
Outcome(cmds, deps) == [cmds |-> cmds, deps |-> deps]

commented(converted) == "# " \o converted

jobRunStep(cmd, patternMap) ==
    LET convertedCmd == convertParameterSyntax(cmd)
        normalized   == normalizeCommand(convertedCmd)
    IN  {IF taskName # "" THEN Outcome(<<>>, <<taskName>>)
         ELSE Outcome(<<convertedCmd>>, <<>>) :
         taskName \in findPatternTask(normalized, patternMap)}

jobStringStepAlwaysDep(step, commands) ==
    {Outcome(<<>>, <<step.v>>)}

jobStringStep(step, commands) ==
    IF step.v \in DOMAIN commands THEN {Outcome(<<>>, <<step.v>>)}
    ELSE {IF ~Contains(converted, "Skipping") /\ ~Contains(converted, "task ")
          THEN Outcome(<<converted>>, <<>>)
          ELSE Outcome(<<commented(converted)>>, <<>>) :
          converted \in convertStepToCommand(step)}

jobOtherStep(step) ==
    {IF ~Contains(converted, "Skipping")
     THEN Outcome(<<converted>>, <<>>)
     ELSE Outcome(<<commented(converted)>>, <<>>) :
     converted \in convertStepToCommand(step)}

stepOutcomes(step, patternMap, commands) ==
    IF extractCommand(step) # "" THEN jobRunStep(extractCommand(step), patternMap)
    ELSE IF IsStr(step) THEN jobStringStep(step, commands)
    ELSE UNION {IF inv.ok
                THEN {Outcome(<<taskCall>>, <<>>) :
                      taskCall \in generateTaskCallWithParams(inv.name, step)}
                ELSE jobOtherStep(step) :
                inv \in isCommandInvocation(step)}

\* the lines and dependencies of a later step put before those of an earlier one
RECURSIVE convertStepsReversed(_, _, _)
convertStepsReversed(steps, patternMap, commands) ==
    IF Len(steps) = 0 THEN {Outcome(<<>>, <<>>)}
    ELSE {Outcome(rest.cmds \o first.cmds, rest.deps \o first.deps) :
          first \in stepOutcomes(steps[1], patternMap, commands),
          rest \in convertStepsReversed(Tail(steps), patternMap, commands)}

RECURSIVE convertSteps(_, _, _)
convertSteps(steps, patternMap, commands) ==
    IF Len(steps) = 0 THEN {Outcome(<<>>, <<>>)}
    ELSE {Outcome(first.cmds \o rest.cmds, first.deps \o rest.deps) :
          first \in stepOutcomes(steps[1], patternMap, commands),
          rest \in convertSteps(Tail(steps), patternMap, commands)}

convertJobToTask(jobName, job, patternMap, commands) ==
    {Task("Task converted from CircleCI job: " \o jobName, out.cmds, out.deps,
          parameterVars(job.Parameters)) :
     out \in convertSteps(job.Steps, patternMap, commands)}

(***************************************************************************)
(* convertCommandsToTasks                                                  *)
(***************************************************************************)
commandStepOutcomes(step) ==
    IF extractCommand(step) # ""
    THEN {convertParameterSyntax(extractCommand(step))}
    ELSE {IF ~Contains(converted, "Skipping")
          THEN convertParameterSyntax(converted)
          ELSE commented(converted) :
          converted \in convertStepToCommand(step)}

RECURSIVE convertCommandSteps(_)
convertCommandSteps(steps) ==
    IF Len(steps) = 0 THEN {<<>>}
    ELSE {<<first>> \o rest : first \in commandStepOutcomes(steps[1]),
                              rest \in convertCommandSteps(Tail(steps))}

convertCommandToTask(commandName, command) ==
    {Task(IF command.Description = ""
          THEN "Task converted from CircleCI command: " \o commandName
          ELSE command.Description,
          cmds, <<>>, parameterVars(command.Parameters)) :
     cmds \in convertCommandSteps(command.Steps)}

convertCommandsToTasks(commands) ==
    {commandTasks \in [DOMAIN commands -> UNION {convertCommandToTask(c, commands[c]) :
                                                c \in DOMAIN commands}] :
        \A c \in DOMAIN commands : commandTasks[c] \in convertCommandToTask(c, commands[c])}

(***************************************************************************)
(* addLocalDevTasks: the three fixed local-development tasks.              *)
(***************************************************************************)
localDevTasks ==
    [name \in {"clean", "setup-local", "ci-local"} |->
        CASE name = "clean" ->
                Task("Clean local build artifacts",
                     <<"rm -rf ./workspace ./artifacts ./test-results",
                       "echo 'Cleaned local CircleCI simulation directories'">>,
                     <<>>, EmptyMap)
          [] name = "setup-local" ->
                Task("Setup local environment for CircleCI simulation",
                     <<"mkdir -p ./workspace ./artifacts ./test-results",
                       "echo 'Local CircleCI directories created'",
                       "echo 'Note: Some steps are CircleCI-server only and will be skipped'">>,
                     <<>>, EmptyMap)
          [] OTHER ->
                Task("Run full CI pipeline locally (where possible)",
                     <<"echo 'Running local CI simulation...'",
                       "echo 'Note: This runs the build logic, but skips server-only features'">>,
                     <<"setup-local">>, EmptyMap)]

\* the fixed tasks added only under names not yet taken
addLocalDevTasksKeepingEarlier(taskMap) == taskMap @@ localDevTasks

addLocalDevTasks(taskMap) == localDevTasks @@ taskMap

(***************************************************************************)
(* extractEnvironmentVariables: the matches of envRegex, a "$" followed by *)
(* an upper-case identifier and a word boundary, or by an upper-case       *)
(* identifier in braces, in the command text of every run step of the jobs *)
(* and of the reusable commands.                                           *)
(***************************************************************************)
InString(c, chars) == \E i \in 1..Len(chars) : Char(chars, i) = c

\* [A-Z_]
NameStart(c) == c = "_" \/ InString(c, UpperLetters)

\* [A-Z0-9_]
NameChar(c) == NameStart(c) \/ InString(c, Digits)

\* \w, the characters between which \b sees no boundary
WordChar(c) == NameChar(c) \/ InString(c, LowerLetters)

\* the last position of the longest run of [A-Z0-9_] that starts at position i
RECURSIVE nameEnd(_, _)
nameEnd(s, i) ==
    IF i + 1 <= Len(s) /\ NameChar(Char(s, i + 1)) THEN nameEnd(s, i + 1) ELSE i

\* the match that starts at position i: its name and its last position, or Nil.
\* A shorter run is followed by a character of the run, so that neither \b
\* nor "}" matches after it: only the longest run can match.
envMatchAt(s, i) ==
    IF Char(s, i) # "$" THEN Nil
    ELSE IF i + 1 <= Len(s) /\ NameStart(Char(s, i + 1))
              /\ LET e == nameEnd(s, i + 1)
                 IN  e = Len(s) \/ ~WordChar(Char(s, e + 1))
         THEN [t |-> "match", name |-> SubSeq(s, i + 1, nameEnd(s, i + 1)),
               last |-> nameEnd(s, i + 1)]
         ELSE IF i + 2 <= Len(s) /\ Char(s, i + 1) = "{"
                   /\ NameStart(Char(s, i + 2))
                   /\ LET e == nameEnd(s, i + 2)
                      IN  e + 1 <= Len(s) /\ Char(s, e + 1) = "}"
              THEN [t |-> "match", name |-> SubSeq(s, i + 2, nameEnd(s, i + 2)),
                    last |-> nameEnd(s, i + 2) + 1]
              ELSE Nil

\* FindAllStringSubmatch(cmd, -1): the successive non-overlapping matches
RECURSIVE envMatchesFrom(_, _)
envMatchesFrom(s, i) ==
    IF i > Len(s) THEN {}
    ELSE LET m == envMatchAt(s, i) IN
         IF m = Nil THEN envMatchesFrom(s, i + 1)
         ELSE {m.name} \cup envMatchesFrom(s, m.last + 1)

envMatches(cmd) == envMatchesFrom(cmd, 1)

extractEnvironmentVariablesJobsOnly(cfg) ==
    UNION {UNION {envMatches(extractCommand(cfg.Jobs[j].Steps[i])) :
                     i \in 1..Len(cfg.Jobs[j].Steps)} : j \in DOMAIN cfg.Jobs}

extractEnvironmentVariables(cfg) ==
    UNION {UNION {envMatches(extractCommand(cfg.Jobs[j].Steps[i])) :
                     i \in 1..Len(cfg.Jobs[j].Steps)} : j \in DOMAIN cfg.Jobs}
    \cup
    UNION {UNION {envMatches(extractCommand(cfg.Commands[c].Steps[i])) :
                     i \in 1..Len(cfg.Commands[c].Steps)} :
              c \in DOMAIN cfg.Commands}

(***************************************************************************)
(* addLocalEnvDefaults: taskfile.Env, set when a variable is referenced.   *)
(***************************************************************************)
circleCIDefaults ==
    [envVar \in {"CIRCLE_PROJECT_REPONAME", "CIRCLE_PROJECT_USERNAME",
                 "CIRCLE_BRANCH", "CIRCLE_BUILD_NUM", "CIRCLE_SHA1",
                 "CIRCLE_WORKING_DIRECTORY", "CIRCLE_TEST_REPORTS", "HOME",
                 "PWD", "NODE_ENV", "AWS_DEFAULT_REGION"} |->
        CASE envVar = "CIRCLE_PROJECT_REPONAME"  -> "local-repo"
          [] envVar = "CIRCLE_PROJECT_USERNAME"  -> "local-user"
          [] envVar = "CIRCLE_BRANCH"            -> "main"
          [] envVar = "CIRCLE_BUILD_NUM"         -> "1"
          [] envVar = "CIRCLE_SHA1"              -> "local-sha"
          [] envVar = "CIRCLE_WORKING_DIRECTORY" -> "."
          [] envVar = "CIRCLE_TEST_REPORTS"      -> "./test-results"
          [] envVar = "HOME"                     -> "$HOME"
          [] envVar = "PWD"                      -> "$PWD"
          [] envVar = "NODE_ENV"                 -> "development"
          [] OTHER                               -> "us-east-1"]

localEnvDefaults(envVarsUsed) ==
    [envVar \in envVarsUsed |->
        IF envVar \in DOMAIN circleCIDefaults THEN circleCIDefaults[envVar]
        ELSE "# TODO: Set " \o envVar \o " for local development"]

\* taskfile.Env after the call: Nil when it was left unset
addLocalEnvDefaults(cfg) ==
    LET envVars == localEnvDefaults(extractEnvironmentVariables(cfg))
    IN  IF DOMAIN envVars # {} THEN Map(envVars) ELSE Nil

(***************************************************************************)
(* convertConfig: the pieces of its body.                                  *)
(***************************************************************************)
NoConfig == [Version |-> "", Jobs |-> EmptyMap, Commands |-> EmptyMap,
             Workflows |-> Nil, Executors |-> Nil]

emptyConfigKeepingCommands(cfg) ==
    [Version |-> cfg.Version, Jobs |-> EmptyMap, Commands |-> cfg.Commands,
     Workflows |-> cfg.Workflows, Executors |-> cfg.Executors]

\* newConfig := CircleCIConfig{...}; a nil Go map is the map without keys
emptyConfig(cfg) ==
    [Version |-> cfg.Version, Jobs |-> EmptyMap, Commands |-> EmptyMap,
     Workflows |-> cfg.Workflows, Executors |-> cfg.Executors]

\* map[string]interface{}{"run": taskCall}
taskCallStep(jobName) == Map("run" :> Str("task " \o jobName))

minimalJobKeepingSteps(jobName, job) ==
    [Executor |-> job.Executor, Docker |-> job.Docker, Machine |-> job.Machine,
     Parameters |-> job.Parameters,
     Steps |-> job.Steps \o <<taskCallStep(jobName)>>, Environment |-> Nil]

\* newJob := Job{...}: Environment is not set
minimalJob(jobName, job) ==
    [Executor |-> job.Executor, Docker |-> job.Docker, Machine |-> job.Machine,
     Parameters |-> job.Parameters, Steps |-> <<taskCallStep(jobName)>>,
     Environment |-> Nil]

\* taskfile.Tasks[name] = task
setTask(taskMap, name, task) == (name :> task) @@ taskMap

\* for name, task := range m { taskfile.Tasks[name] = task }
setTasks(taskMap, m) == m @@ taskMap

(***************************************************************************)
(* The inputs: configurations built from small pools of names, steps, job  *)
(* fields and reusable commands.                                           *)
(***************************************************************************)
RunStep(cmd) == Map("run" :> Str(cmd))

RunCommandStep(cmd) == Map("run" :> Map("command" :> Str(cmd)))

Job(executor, docker, machine, parameters, steps, environment) ==
    [Executor |-> executor, Docker |-> docker, Machine |-> machine,
     Parameters |-> parameters, Steps |-> steps, Environment |-> environment]

Command(description, parameters, steps) ==
    [Description |-> description, Parameters |-> parameters, Steps |-> steps]

Config(version, jobs, commands, workflows, executors) ==
    [Version |-> version, Jobs |-> jobs, Commands |-> commands,
     Workflows |-> workflows, Executors |-> executors]

SeqsUpTo(S, n) == UNION {[1..k -> S] : k \in 0..n}

MapsOver(Names, Values) == UNION {[N -> Values] : N \in SUBSET Names}

JobNames == {"b", "c"}

CommandNames == {"c"}

Workflows == Map("main" :> Map("jobs" :> List(<<Str("b"), Str("c")>>)))

Executors == Map("node" :> Map("docker" :> List(<<Map("image" :> Str("node:16"))>>)))

\* Spec: jobs without fields other than their steps; run steps that repeat, that
\* differ only in their whitespace and that derive the same task name, and a
\* string step that names the reusable command
StepPool ==
    {RunStep("b -x"),
     RunCommandStep("b\n  -x"),
     RunStep("b -y"),
     Str("c")}

PlainJobs ==
    {Job(Nil, <<>>, Nil, Nil, steps, Nil) : steps \in SeqsUpTo(StepPool, MaxSteps)}

CommandPool ==
    {Command("", Nil, <<RunStep("b -x")>>),
     Command("Set up", Map("p" :> Map("default" :> Str("v"))),
             <<Str("checkout"), RunStep("m << parameters.p >>")>>)}

Configs ==
    {Config("2.1", jobs, commands, Workflows, Nil) :
        jobs \in MapsOver(JobNames, PlainJobs),
        commands \in MapsOver(CommandNames, CommandPool)}

\* SpecFields: jobs with their other fields set, run steps with a parameter
\* marker, and the top-level sections present or absent
FieldsPool ==
    {<<Nil, <<>>, Nil, Nil, Nil>>,
     <<Str("node"), <<>>, Nil, Map("p" :> Map("default" :> Str("v"))), Nil>>,
     <<Nil, <<[Image |-> "node:16"]>>, Map("image" :> Str("ubuntu")), Nil,
       Map("FOO" :> Str("bar"))>>}

FieldsStepPool ==
    {Str("checkout"),
     RunStep("m << parameters.p >>")}

FieldsJobs ==
    {Job(f[1], f[2], f[3], f[4], steps, f[5]) :
        f \in FieldsPool, steps \in SeqsUpTo(FieldsStepPool, MaxSteps)}

FieldsConfigs ==
    {Config("2.1", jobs, top[1], Workflows, top[2]) :
        jobs \in MapsOver(JobNames, FieldsJobs),
        top \in {<<EmptyMap, Nil>>,
                 <<"c" :> Command("", Nil, <<Str("checkout"), RunStep("d")>>),
                   Executors>>}}

\* SpecSteps: one job, named like no other task or like a fixed task, whose
\* steps are invocations of the reusable command "deploy" (with arguments,
\* bare as a mapping, bare as a string), server-only steps, a run step that
\* references environment variables and a run step named like a fixed task;
\* parameter declarations with a default, without one, and without a body
Declarations ==
    Map(("target" :> Map(("type" :> Str("string")) @@ ("default" :> Str("production"))))
        @@ ("tag" :> Map("type" :> Str("string")))
        @@ ("region" :> Nil))

InvocationStepPool ==
    {Map("deploy" :> Map(("target" :> Str("staging")) @@ ("n" :> Str("1")))),
     Map("deploy" :> Nil),
     Str("deploy"),
     Map("save_cache" :> Map("paths" :> List(<<Str("~/m")>>))),
     Map("restore_cache" :> Map("key" :> Str("k"))),
     Map("setup_remote_docker" :> Nil),
     RunStep("echo $HOME ${FOO}"),
     RunStep("clean")}

StepsJobs ==
    {Job(Nil, <<>>, Nil, Nil, steps, Nil) :
        steps \in SeqsUpTo(InvocationStepPool, MaxSteps)}
    \cup {Job(Nil, <<>>, Nil, Declarations, <<RunStep("clean")>>, Nil)}

DeployCommand ==
    Command("Deploy", Declarations,
            <<RunStep("push << parameters.target >> $CIRCLE_BRANCH $FOOb $x"),
              Str("setup_remote_docker")>>)

CacheCommand ==
    Command("", Nil,
            <<Map("save_cache" :> Map("paths" :> List(<<Str("~/m")>>))),
              Map("setup_remote_docker" :> Map("version" :> Str("default"))),
              Map("restore_cache" :> Nil)>>)

StepsConfigs ==
    {Config("2.1", jobs, commands, Workflows, Nil) :
        jobs \in {EmptyMap}
                 \cup {"b" :> job : job \in StepsJobs}
                 \cup {"setup-local" :>
                          Job(Nil, <<>>, Nil, Nil,
                              <<RunStep("clean"), RunStep("clean")>>, Nil)},
        commands \in {EmptyMap,
                      "deploy" :> DeployCommand,
                      "deploy" :> CacheCommand,
                      ("deploy" :> DeployCommand) @@ ("ci-local" :> CacheCommand)}}

(***************************************************************************)
(* convertConfig as a state machine.                                       *)
(***************************************************************************)
NormIdle ==
    /\ nCmd = ""
    /\ nVariant = ""
    /\ nResult = Nil

ParamIdle ==
    /\ pSegs = <<>>
    /\ pResult = Nil
    /\ pWork = Nil

MainIdle ==
    /\ mPc = "off"
    /\ mEnv = Nil
    /\ mExit = Nil
    /\ mOut = <<>>
    /\ mFiles = {}

NameIdle ==
    /\ gWords = <<>>
    /\ gResult = Nil

ReportIdle ==
    /\ aPc = "off"
    /\ aCounts = EmptyMap
    /\ aTodo = {}
    /\ aCommands = <<>>

Init ==
    /\ config \in Configs
    /\ pc = "start"
    /\ commandCounts = EmptyMap
    /\ countsTodo = {}
    /\ patterns = EmptyMap
    /\ tasks = EmptyMap
    /\ jobsTodo = {}
    /\ newConfig = NoConfig
    /\ taskEnv = Nil
    /\ previous = Nil
    /\ NormIdle
    /\ ParamIdle
    /\ MainIdle
    /\ NameIdle
    /\ ReportIdle

\* newConfig and taskfile are built, then analyzePatterns counts the commands
Start ==
    /\ pc = "start"
    /\ newConfig' = emptyConfig(config)
    /\ tasks' = EmptyMap
    /\ commandCounts' = countCommands(config)
    /\ countsTodo' = DOMAIN commandCounts'
    /\ patterns' = EmptyMap
    /\ pc' = "patterns"
    /\ UNCHANGED <<config, jobsTodo>>
    /\ UNCHANGED <<taskEnv, previous, normVars, paramVars, mainVars, nameVars, reportVars>>

\* one iteration of analyzePatterns' loop over commandCounts
CreatePattern ==
    /\ pc = "patterns"
    /\ \E cmd \in countsTodo :
          /\ patterns' =
                IF commandCounts[cmd] >= 2
                THEN (generateTaskName(cmd) :> patternTask(cmd, commandCounts[cmd]))
                     @@ patterns
                ELSE patterns
          /\ countsTodo' = countsTodo \ {cmd}
    /\ UNCHANGED <<config, pc, commandCounts, tasks, jobsTodo, newConfig>>
    /\ UNCHANGED <<taskEnv, previous, normVars, paramVars, mainVars, nameVars, reportVars>>

\* commandTasks := convertCommandsToTasks(config.Commands), copied into Tasks
ConvertCommands ==
    /\ pc = "patterns"
    /\ countsTodo = {}
    /\ \E commandTasks \in convertCommandsToTasks(config.Commands) :
          tasks' = setTasks(tasks, commandTasks)
    /\ jobsTodo' = DOMAIN config.Jobs
    /\ pc' = "jobs"
    /\ UNCHANGED <<config, commandCounts, countsTodo, patterns, newConfig>>
    /\ UNCHANGED <<taskEnv, previous, normVars, paramVars, mainVars, nameVars, reportVars>>

\* one iteration of the loop over config.Jobs
ConvertJob ==
    /\ pc = "jobs"
    /\ \E jobName \in jobsTodo :
          /\ \E task \in convertJobToTask(jobName, config.Jobs[jobName], patterns,
                                          config.Commands) :
                tasks' = setTask(tasks, jobName, task)
          /\ newConfig' =
                [newConfig EXCEPT !.Jobs =
                    (jobName :> minimalJob(jobName, config.Jobs[jobName])) @@ @]
          /\ jobsTodo' = jobsTodo \ {jobName}
    /\ UNCHANGED <<config, pc, commandCounts, countsTodo, patterns>>
    /\ UNCHANGED <<taskEnv, previous, normVars, paramVars, mainVars, nameVars, reportVars>>

\* the loop copying the pattern tasks into Tasks
AddPatternTasks ==
    /\ pc = "jobs"
    /\ jobsTodo = {}
    /\ tasks' = setTasks(tasks, patterns)
    /\ pc' = "local"
    /\ UNCHANGED <<config, commandCounts, countsTodo, patterns, jobsTodo, newConfig>>
    /\ UNCHANGED <<taskEnv, previous, normVars, paramVars, mainVars, nameVars, reportVars>>

\* addLocalDevTasks(&taskfile)
AddLocalDevTasks ==
    /\ pc = "local"
    /\ tasks' = addLocalDevTasks(tasks)
    /\ pc' = "env"
    /\ UNCHANGED <<config, commandCounts, countsTodo, patterns, jobsTodo, newConfig>>
    /\ UNCHANGED <<taskEnv, previous, normVars, paramVars, mainVars, nameVars, reportVars>>

\* addLocalEnvDefaults(&taskfile, config), and convertConfig returns
AddLocalEnvDefaults ==
    /\ pc = "env"
    /\ taskEnv' = addLocalEnvDefaults(config)
    /\ pc' = "done"
    /\ UNCHANGED <<config, commandCounts, countsTodo, patterns, tasks, jobsTodo,
                   newConfig>>
    /\ UNCHANGED <<previous, normVars, paramVars, mainVars, nameVars, reportVars>>

Next ==
    \/ Start
    \/ CreatePattern
    \/ ConvertCommands
    \/ ConvertJob
    \/ AddPatternTasks
    \/ AddLocalDevTasks
    \/ AddLocalEnvDefaults

Spec == Init /\ [][Next]_vars

InitFields ==
    /\ config \in FieldsConfigs
    /\ pc = "start"
    /\ commandCounts = EmptyMap
    /\ countsTodo = {}
    /\ patterns = EmptyMap
    /\ tasks = EmptyMap
    /\ jobsTodo = {}
    /\ newConfig = NoConfig
    /\ taskEnv = Nil
    /\ previous = Nil
    /\ NormIdle
    /\ ParamIdle
    /\ MainIdle
    /\ NameIdle
    /\ ReportIdle

SpecFields == InitFields /\ [][Next]_vars

InitSteps ==
    /\ config \in StepsConfigs
    /\ pc = "start"
    /\ commandCounts = EmptyMap
    /\ countsTodo = {}
    /\ patterns = EmptyMap
    /\ tasks = EmptyMap
    /\ jobsTodo = {}
    /\ newConfig = NoConfig
    /\ taskEnv = Nil
    /\ previous = Nil
    /\ NormIdle
    /\ ParamIdle
    /\ MainIdle
    /\ NameIdle
    /\ ReportIdle

SpecSteps == InitSteps /\ [][Next]_vars

\* convertConfig has returned and is called once more on the same config
RunAgain ==
    /\ pc = "done"
    /\ previous = Nil
    /\ previous' = [newConfig |-> newConfig, tasks |-> tasks, env |-> taskEnv]
    /\ pc' = "start"
    /\ commandCounts' = EmptyMap
    /\ countsTodo' = {}
    /\ patterns' = EmptyMap
    /\ tasks' = EmptyMap
    /\ jobsTodo' = {}
    /\ newConfig' = NoConfig
    /\ taskEnv' = Nil
    /\ UNCHANGED config
    /\ UNCHANGED <<normVars, paramVars, mainVars, nameVars, reportVars>>

NextTwice ==
    \/ Next
    \/ RunAgain

SpecTwice == InitSteps /\ [][NextTwice]_vars

(***************************************************************************)
(* Properties of the result of convertConfig.                              *)
(***************************************************************************)
Done == pc = "done"

DepsOf(taskMap, t) == {taskMap[t].Deps[i] : i \in 1..Len(taskMap[t].Deps)}

CmdsOf(taskMap, t) == {taskMap[t].Cmds[i] : i \in 1..Len(taskMap[t].Cmds)}

\* C1: in the returned task mapping every name in a Deps list is a key of the
\* mapping (no dangling dependency).
C1_NoDanglingDeps ==
    Done => \A t \in DOMAIN tasks : DepsOf(tasks, t) \subseteq DOMAIN tasks

\* a job task that depends on a pattern task and on a reusable command's task
C1_Witness ==
    /\ Done
    /\ \E t \in DOMAIN config.Jobs :
          /\ Len(tasks[t].Deps) = 2
          /\ tasks[t].Deps[1] \in DOMAIN patterns
          /\ tasks[t].Deps[2] \in DOMAIN config.Commands
          /\ tasks[t].Deps[2] \notin DOMAIN patterns

\* C2: the minimized config has exactly the input's job names, and each job J
\* has exactly one step, the run step "task J".
C2_MinimizedJobsCallOwnTask ==
    Done =>
        /\ DOMAIN newConfig.Jobs = DOMAIN config.Jobs
        /\ \A j \in DOMAIN newConfig.Jobs :
              /\ Len(newConfig.Jobs[j].Steps) = 1
              /\ newConfig.Jobs[j].Steps[1] = Map("run" :> Str("task " \o j))

C2_Witness ==
    /\ Done
    /\ DOMAIN config.Jobs = {"b", "c"}
    /\ Len(config.Jobs["b"].Steps) = 2
    /\ Len(config.Jobs["c"].Steps) = 0
    /\ extractCommand(newConfig.Jobs["b"].Steps[1]) = "task b"
    /\ extractCommand(newConfig.Jobs["c"].Steps[1]) = "task c"

\* C3: the dependency graph of the returned task mapping (an edge T -> d for
\* every d in Tasks[T].Deps) has no cycle and no self-loop, also when job,
\* command and pattern names coincide.
RECURSIVE DepClosure(_, _)
DepClosure(taskMap, S) ==
    LET next == S \cup UNION {DepsOf(taskMap, t) : t \in S \cap DOMAIN taskMap}
    IN  IF next = S THEN S ELSE DepClosure(taskMap, next)

C3_DependencyGraphAcyclic ==
    Done => \A t \in DOMAIN tasks : t \notin DepClosure(tasks, DepsOf(tasks, t))

\* the run steps of the configuration, by owner, and their normalized commands
RunStepsOf(owners, kind) ==
    UNION {{<<kind, o, i>> : i \in {k \in 1..Len(owners[o].Steps) :
                                       extractCommand(owners[o].Steps[k]) # ""}} :
              o \in DOMAIN owners}

JobRunSteps == RunStepsOf(config.Jobs, "job")

AllRunSteps == JobRunSteps \cup RunStepsOf(config.Commands, "command")

TextAt(at) == extractCommand(stepAt(config, at))

Occurrences(cmd, among) ==
    Cardinality({at \in among : normalizeCommand(TextAt(at)) = cmd})

NormalizedCommands(among) == {normalizeCommand(TextAt(at)) : at \in among}

PatternFor(cmd) == {n \in DOMAIN patterns : patterns[n].Cmds = <<cmd>>}

C5_RepeatedStepsBecomeDeps ==
    Done =>
        \A cmd \in NormalizedCommands(AllRunSteps) :
            Occurrences(cmd, AllRunSteps) >= 2 =>
                \E n \in DOMAIN patterns :
                    \A at \in AllRunSteps :
                        normalizeCommand(TextAt(at)) = cmd =>
                            /\ n \in DepsOf(tasks, at[2])
                            /\ convertParameterSyntax(TextAt(at))
                                   \notin CmdsOf(tasks, at[2])

\* C6: no entry of the task mapping is replaced by a later entry of another
\* category: in the result, Tasks[J] is the task converted from job J for every
\* job J, and Tasks[C] the task converted from C for every reusable command C.
C6_NoEntryReplaced ==
    Done =>
        /\ \A j \in DOMAIN config.Jobs :
              tasks[j] \in convertJobToTask(j, config.Jobs[j], patterns,
                                            config.Commands)
        /\ \A c \in DOMAIN config.Commands :
              tasks[c] \in convertCommandToTask(c, config.Commands[c])

\* C7: analyzePatterns returns as many pattern tasks as there are distinct
\* normalized commands with a count of at least 2 (no two of them share a
\* derived name).
C7_OnePatternPerRepeatedCommand ==
    Done =>
        Cardinality(DOMAIN patterns)
            = Cardinality({cmd \in DOMAIN commandCounts : commandCounts[cmd] >= 2})

\* C8: every field of a job other than its steps (executor, docker, machine,
\* parameters, environment) has the same value in the minimized config.
C8_JobFieldsPassThrough ==
    Done =>
        \A j \in DOMAIN config.Jobs :
            /\ newConfig.Jobs[j].Executor = config.Jobs[j].Executor
            /\ newConfig.Jobs[j].Docker = config.Jobs[j].Docker
            /\ newConfig.Jobs[j].Machine = config.Jobs[j].Machine
            /\ newConfig.Jobs[j].Parameters = config.Jobs[j].Parameters
            /\ newConfig.Jobs[j].Environment = config.Jobs[j].Environment

\* C9: the minimized config has the input's version, workflows and executors,
\* and no commands section, however many reusable commands the input declares.
C9_TopLevelPassThrough ==
    Done =>
        /\ newConfig.Version = config.Version
        /\ newConfig.Workflows = config.Workflows
        /\ newConfig.Executors = config.Executors
        /\ DOMAIN newConfig.Commands = {}

C9_Witness ==
    /\ Done
    /\ DOMAIN config.Commands = {"c"}
    /\ config.Executors = Executors
    /\ newConfig.Executors = Executors
    /\ DOMAIN newConfig.Commands = {}

(***************************************************************************)
(* Properties of the tasks converted from the steps of a job or command.   *)
(***************************************************************************)
\* the entry of the task mapping under this job's name is the job's task: no
\* pattern task and no fixed task has taken the name
JobTaskKept(j) ==
    /\ j \in DOMAIN config.Jobs
    /\ j \notin DOMAIN patterns
    /\ j \notin {"clean", "setup-local", "ci-local"}

CommandTaskKept(c) ==
    /\ c \in DOMAIN config.Commands
    /\ c \notin DOMAIN config.Jobs
    /\ c \notin DOMAIN patterns
    /\ c \notin {"clean", "setup-local", "ci-local"}

DeclaredDefault(declaration) ==
    IF IsMap(declaration) /\ "default" \in DOMAIN declaration.v
    THEN FmtV(declaration.v["default"])
    ELSE ""

HasVariablesFor(task, parameters) ==
    IsMap(parameters) =>
        \A p \in DOMAIN parameters.v :
            /\ ToUpper(p) \in DOMAIN task.Vars
            /\ task.Vars[ToUpper(p)] =
                  "{{." \o ToUpper(p) \o " | default \""
                  \o DeclaredDefault(parameters.v[p]) \o "\"}}"

\* C13: for every parameter a job or a reusable command declares, whatever
\* the shape of the declaration, the task's variable table maps the parameter's
\* upper-cased name to {{.NAME | default "D"}}, D being the text of the
\* declared default, or empty when none is declared.
C13_EveryParameterHasVariable ==
    Done =>
        /\ \A j \in DOMAIN config.Jobs :
              JobTaskKept(j) => HasVariablesFor(tasks[j], config.Jobs[j].Parameters)
        /\ \A c \in DOMAIN config.Commands :
              CommandTaskKept(c) =>
                  HasVariablesFor(tasks[c], config.Commands[c].Parameters)

SingleKey(step) == IsMap(step) /\ Cardinality(DOMAIN step.v) = 1

KeyOf(step) == CHOOSE key \in DOMAIN step.v : TRUE

\* a single-key mapping, its key no structural step name, its value a mapping
IsParameterizedInvocation(step) ==
    /\ SingleKey(step)
    /\ KeyOf(step) \notin builtInSteps
    /\ IsMap(step.v[KeyOf(step)])

\* "task NAME" followed by the KEY=value pairs of the arguments, in any order
CallLines(step) ==
    LET name == KeyOf(step)
        args == step.v[name].v
    IN  {"task " \o name
            \o Join([i \in DOMAIN order |->
                        " " \o ToUpper(order[i]) \o "=" \o FmtV(args[order[i]])], "") :
         order \in paramOrders(DOMAIN args)}

StepsOfJob(j) == config.Jobs[j].Steps

\* C14: a job step that invokes a reusable command with arguments yields
\* exactly one command line, "task NAME" followed by one KEY=value pair (key in
\* upper case) for every argument, and no dependency: the task depends on
\* NAME only where another step invokes NAME as a bare string.
C14_ParameterizedInvocationIsCallLine ==
    Done =>
        \A j \in DOMAIN config.Jobs :
            JobTaskKept(j) =>
                LET steps == StepsOfJob(j)
                    invocations == {i \in 1..Len(steps) :
                                       IsParameterizedInvocation(steps[i])}
                    lines == UNION {CallLines(steps[i]) : i \in invocations}
                IN  /\ \A i \in invocations :
                          \E n \in 1..Len(tasks[j].Cmds) :
                              tasks[j].Cmds[n] \in CallLines(steps[i])
                    /\ Cardinality({n \in 1..Len(tasks[j].Cmds) :
                                       tasks[j].Cmds[n] \in lines})
                           = Cardinality(invocations)
                    /\ Len(tasks[j].Cmds) + Len(tasks[j].Deps) = Len(steps)
                    /\ \A i \in invocations :
                          KeyOf(steps[i]) \in DepsOf(tasks, j) =>
                              \E k \in 1..Len(steps) : steps[k] = Str(KeyOf(steps[i]))

\* job b invokes deploy with two arguments, after a bare invocation of it
C14_Witness ==
    /\ Done
    /\ "b" \in DOMAIN config.Jobs
    /\ Len(StepsOfJob("b")) = 2
    /\ StepsOfJob("b")[1] = Str("deploy")
    /\ IsParameterizedInvocation(StepsOfJob("b")[2])
    /\ "deploy" \in DOMAIN config.Commands
    /\ tasks["b"].Deps = <<"deploy">>
    /\ tasks["b"].Cmds = <<"task deploy TARGET=staging N=1">>

\* a bare invocation: a string that names a reusable command, or a single-key
\* mapping whose key is no structural step name and whose value is no mapping
IsBareInvocation(step) ==
    \/ IsStr(step) /\ step.v \in DOMAIN config.Commands
    \/ /\ SingleKey(step)
       /\ KeyOf(step) \notin builtInSteps
       /\ ~IsMap(step.v[KeyOf(step)])

InvokedName(step) == IF IsStr(step) THEN step.v ELSE KeyOf(step)

\* C15: a job step that is a bare invocation of a reusable command, in either
\* shape, makes the job's task depend on the task of that name and yields no
\* command line.
C15_BareInvocationIsDependency ==
    Done =>
        \A j \in DOMAIN config.Jobs :
            JobTaskKept(j) =>
                \A i \in 1..Len(StepsOfJob(j)) :
                    IsBareInvocation(StepsOfJob(j)[i]) =>
                        /\ InvokedName(StepsOfJob(j)[i]) \in DepsOf(tasks, j)
                        /\ \A n \in 1..Len(tasks[j].Cmds) :
                              ~Contains(tasks[j].Cmds[n],
                                        "task " \o InvokedName(StepsOfJob(j)[i]))
                              \/ \E k \in 1..Len(StepsOfJob(j)) :
                                    /\ IsParameterizedInvocation(StepsOfJob(j)[k])
                                    /\ tasks[j].Cmds[n] \in CallLines(StepsOfJob(j)[k])

ServerOnlySteps == {"save_cache", "restore_cache", "setup_remote_docker"}

\* a save_cache, restore_cache or setup_remote_docker step, written as a bare
\* string or as a mapping with a payload
IsServerOnly(step) ==
    \/ IsStr(step) /\ step.v \in ServerOnlySteps
    \/ SingleKey(step) /\ KeyOf(step) \in ServerOnlySteps

\* the job step yields a dependency instead of a command line
YieldsDep(step) ==
    \/ IsStr(step) /\ step.v \in DOMAIN config.Commands
    \/ /\ extractCommand(step) # ""
       /\ findPatternTask(
              normalizeCommand(convertParameterSyntax(extractCommand(step))),
              patterns) # {""}

\* the command line of the job's task that step i yields
JobLine(j, i) ==
    tasks[j].Cmds[i - Cardinality({k \in 1..(i - 1) : YieldsDep(StepsOfJob(j)[k])})]

IsComment(line) == HasPrefix(line, "#")

\* C16: in the task of a job and in the task of a reusable command, the
\* command line of a save_cache, restore_cache or setup_remote_docker step
\* begins with "#", whatever the step's payload.
C16_ServerOnlyStepsAreComments ==
    Done =>
        /\ \A j \in DOMAIN config.Jobs :
              JobTaskKept(j) =>
                  \A i \in 1..Len(StepsOfJob(j)) :
                      IsServerOnly(StepsOfJob(j)[i]) => IsComment(JobLine(j, i))
        /\ \A c \in DOMAIN config.Commands :
              CommandTaskKept(c) =>
                  \A i \in 1..Len(config.Commands[c].Steps) :
                      IsServerOnly(config.Commands[c].Steps[i]) =>
                          IsComment(tasks[c].Cmds[i])

IdentifierChar(c) == InString(c, UpperLetters \o LowerLetters \o Digits \o "_")

IsUpperName(name) ==
    /\ name # ""
    /\ ~InString(Char(name, 1), Digits)
    /\ \A i \in 1..Len(name) : InString(Char(name, i), UpperLetters \o Digits \o "_")

ReferencedIn(cmd) ==
    LET dollars == {i \in 1..Len(cmd) : Char(cmd, i) = "$"}
        plainAt(i) ==
            {SubSeq(cmd, i + 1, e) :
                e \in {k \in (i + 1)..Len(cmd) :
                          k = Len(cmd) \/ ~IdentifierChar(Char(cmd, k + 1))}}
        bracedAt(i) ==
            {SubSeq(cmd, i + 2, e) :
                e \in {k \in (i + 2)..(Len(cmd) - 1) :
                          Char(cmd, i + 1) = "{" /\ Char(cmd, k + 1) = "}"}}
    IN  {name \in UNION {plainAt(i) \cup bracedAt(i) : i \in dollars} :
            IsUpperName(name)}

ReferencedNames ==
    UNION {ReferencedIn(TextAt(at)) : at \in AllRunSteps}

\* C18: the env table of the task file has as keys the upper-case names that
\* the run steps of the jobs and of the reusable commands reference as $NAME or
\* ${NAME}; a known CI variable has its default from the fixed table, any other
\* name the placeholder "# TODO: Set NAME for local development"; without a
\* reference no env table is set.
C18_EnvTableOfReferencedNames ==
    Done =>
        IF ReferencedNames = {} THEN taskEnv = Nil
        ELSE /\ IsMap(taskEnv)
             /\ DOMAIN taskEnv.v = ReferencedNames
             /\ \A name \in ReferencedNames :
                   taskEnv.v[name] =
                       IF name \in DOMAIN circleCIDefaults THEN circleCIDefaults[name]
                       ELSE "# TODO: Set " \o name \o " for local development"

\* the job references HOME and FOO, the reusable command CIRCLE_BRANCH (and
\* $FOOb and $x, which are no upper-case names)
C18_Witness ==
    /\ Done
    /\ IsMap(taskEnv)
    /\ DOMAIN taskEnv.v = {"HOME", "FOO", "CIRCLE_BRANCH"}
    /\ taskEnv.v["HOME"] = "$HOME"
    /\ taskEnv.v["CIRCLE_BRANCH"] = "main"
    /\ taskEnv.v["FOO"] = "# TODO: Set FOO for local development"

\* C19: a second run of convertConfig on the same configuration returns the
\* minimized config, the task mapping and the env table of the first run.
C19_SecondRunReturnsTheSame ==
    (Done /\ previous # Nil) =>
        /\ previous.newConfig = newConfig
        /\ previous.tasks = tasks
        /\ previous.env = taskEnv

(***************************************************************************)
(* normalizeCommand on its own: a command text, the same tokens with their *)
(* whitespace placed differently, and the function applied to both.        *)
(***************************************************************************)
NormAlphabet == {"a", " ", "\n", "\t"}

RECURSIVE StringsUpTo(_, _)
StringsUpTo(Alphabet, n) ==
    IF n = 0 THEN {""}
    ELSE LET shorter == StringsUpTo(Alphabet, n - 1)
         IN  shorter \cup {s \o c : s \in shorter, c \in Alphabet}

\* position i of s (1..Len(s)+1) lies at an end of s or next to whitespace, so
\* that whitespace put there joins or splits no token
SeparatorAt(s, i) ==
    \/ i = 1
    \/ i = Len(s) + 1
    \/ IsSpace(Char(s, i - 1))
    \/ IsSpace(Char(s, i))

Respacings(s) ==
    LET spaces == {c \in NormAlphabet : IsSpace(c)} IN
    {SubSeq(s, 1, i - 1) \o c \o SubSeq(s, i, Len(s)) :
        i \in {k \in 1..(Len(s) + 1) : SeparatorAt(s, k)}, c \in spaces}
    \cup
    {SubSeq(s, 1, i - 1) \o c \o SubSeq(s, i + 1, Len(s)) :
        i \in {k \in 1..Len(s) : IsSpace(Char(s, k))}, c \in spaces}
    \cup
    {SubSeq(s, 1, i - 1) \o SubSeq(s, i + 1, Len(s)) :
        i \in {k \in 1..Len(s) : /\ IsSpace(Char(s, k))
                                 /\ \/ k = 1
                                    \/ k = Len(s)
                                    \/ IsSpace(Char(s, k - 1))
                                    \/ IsSpace(Char(s, k + 1))}}

ConvIdle ==
    /\ config = Config("", EmptyMap, EmptyMap, Nil, Nil)
    /\ pc = "idle"
    /\ commandCounts = EmptyMap
    /\ countsTodo = {}
    /\ patterns = EmptyMap
    /\ tasks = EmptyMap
    /\ jobsTodo = {}
    /\ newConfig = NoConfig
    /\ taskEnv = Nil
    /\ previous = Nil

InitNorm ==
    /\ nCmd \in StringsUpTo(NormAlphabet, MaxCmdLen)
    /\ nVariant = nCmd
    /\ nResult = Nil
    /\ ConvIdle
    /\ ParamIdle
    /\ MainIdle
    /\ NameIdle
    /\ ReportIdle

\* the same tokens, one whitespace character added, changed or dropped
Respace ==
    /\ pc = "idle"
    /\ nResult = Nil
    /\ \E v \in Respacings(nVariant) :
          /\ Len(v) <= MaxCmdLen
          /\ nVariant' = v
    /\ UNCHANGED <<nCmd, nResult>>
    /\ UNCHANGED <<convVars, previous, paramVars, mainVars, nameVars, reportVars>>

\* normalizeCommand(cmd), normalizeCommand of that result, normalizeCommand(variant)
Normalize ==
    /\ pc = "idle"
    /\ nResult = Nil
    /\ nResult' = [t |-> "norm",
                   once |-> normalizeCommand(nCmd),
                   twice |-> normalizeCommand(normalizeCommand(nCmd)),
                   variant |-> normalizeCommand(nVariant)]
    /\ UNCHANGED <<nCmd, nVariant>>
    /\ UNCHANGED <<convVars, previous, paramVars, mainVars, nameVars, reportVars>>

NextNorm ==
    \/ Respace
    \/ Normalize

SpecNorm == InitNorm /\ [][NextNorm]_vars

\* C10: normalizeCommand is idempotent, and two texts with the same tokens,
\* differing only in the whitespace between and around them, normalize to the
\* same string.
C10_NormalizeIdempotentAndSpacingInvariant ==
    nResult # Nil =>
        /\ nResult.twice = nResult.once
        /\ nResult.variant = nResult.once

C10_Witness ==
    /\ nResult # Nil
    /\ nCmd = "a\na"
    /\ nVariant = "a \ta"
    /\ nResult.once = "a a"

(***************************************************************************)
(* convertParameterSyntax on its own: a command text put together from     *)
(* pieces of plain text, well-formed markers "<< parameters.NAME >>" and   *)
(* openings "<< parameters.NAME " that lack their " >>".                   *)
(***************************************************************************)
TextPiece(text) == [kind |-> "text", s |-> text]

MarkerPiece(name) == [kind |-> "marker", s |-> name]

OpenPiece(name) == [kind |-> "open", s |-> name]

PiecePool ==
    {TextPiece("a "), TextPiece("x >> y"),
     MarkerPiece("p"), MarkerPiece("Ab_1"),
     OpenPiece("q")}

\* the command text the pieces make up
RECURSIVE Render(_)
Render(pieces) ==
    IF Len(pieces) = 0 THEN ""
    ELSE (CASE pieces[1].kind = "marker" ->
                  "<< parameters." \o pieces[1].s \o " >>"
            [] pieces[1].kind = "open" -> "<< parameters." \o pieces[1].s \o " "
            [] OTHER -> pieces[1].s)
         \o Render(Tail(pieces))

InitParam ==
    /\ pSegs = <<>>
    /\ pResult = Nil
    /\ pWork = Nil
    /\ ConvIdle
    /\ NormIdle
    /\ MainIdle
    /\ NameIdle
    /\ ReportIdle

\* one more piece of command text
AddPiece ==
    /\ pc = "idle"
    /\ mPc = "off"
    /\ pResult = Nil
    /\ Len(pSegs) < MaxSegments
    /\ \E piece \in PiecePool : pSegs' = Append(pSegs, piece)
    /\ UNCHANGED <<pResult, pWork>>
    /\ UNCHANGED <<convVars, previous, normVars, mainVars, nameVars, reportVars>>

\* convertParameterSyntax(cmd)
Translate ==
    /\ pc = "idle"
    /\ mPc = "off"
    /\ pResult = Nil
    /\ pResult' = Str(convertParameterSyntax(Render(pSegs)))
    /\ UNCHANGED <<pSegs, pWork>>
    /\ UNCHANGED <<convVars, previous, normVars, mainVars, nameVars, reportVars>>

NextParam ==
    \/ AddPiece
    \/ Translate

SpecParam == InitParam /\ [][NextParam]_vars

\* the text with every well-formed marker replaced by {{.NAME}}, NAME in upper
\* case, and every other piece as it is written
RECURSIVE Rewritten(_)
Rewritten(pieces) ==
    IF Len(pieces) = 0 THEN ""
    ELSE (IF pieces[1].kind = "marker"
          THEN "{{." \o ToUpper(pieces[1].s) \o "}}"
          ELSE Render(<<pieces[1]>>))
         \o Rewritten(Tail(pieces))

KindsOf(pieces) == {pieces[i].kind : i \in 1..Len(pieces)}

RECURSIVE Unclosed(_, _)
Unclosed(pieces, i) ==
    \/ i + 1 > Len(pieces)
    \/ pieces[i + 1].kind # "text"
    \/ /\ ~Contains(pieces[i + 1].s, " >>")
       /\ Unclosed(pieces, i + 1)

\* C12: an opening "<< parameters." without a closing " >>" of its own is
\* left in the output as written, also when text and a well-formed marker
\* follow it, and the well-formed markers are rewritten.
C12_UnmatchedOpeningsLeftUntouched ==
    (/\ pResult # Nil
     /\ "open" \in KindsOf(pSegs)
     /\ \A i \in 1..Len(pSegs) : pSegs[i].kind = "open" => Unclosed(pSegs, i)) =>
        pResult.v = Rewritten(pSegs)

(***************************************************************************)
(* convertParameterSyntax, one statement of its loop at a time, on texts   *)
(* put together from openings, closings and names in any order.  pWork     *)
(* holds the position in the loop and the variables result, start and end, *)
(* or Panic after a slice expression whose indices are out of range.       *)
(***************************************************************************)
Panic == [t |-> "panic"]

LoopAt(at, result, start, end) ==
    [t |-> "loop", pc |-> at, result |-> result, start |-> start, end |-> end]

\* s[lo:hi]
Slice(s, lo, hi) ==
    IF 0 <= lo /\ lo <= hi /\ hi <= Len(s) THEN Str(SubSeq(s, lo + 1, hi))
    ELSE Panic

\* strings.Index(result, " >>"), the closing looked for from the start of the
\* text
closingIndexInWholeText(result, start) == Index(result, " >>")

\* strings.Index(result[start:], " >>")
closingIndex(result, start) == Index(SubSeq(result, start + 1, Len(result)), " >>")

\* paramPart, paramName and the assignment to result
assignResult(result, start, end) ==
    LET paramPart == Slice(result, start + 14, end)
        before    == Slice(result, 0, start)
        after     == Slice(result, end + 3, Len(result))
    IN  IF Panic \in {paramPart, before, after} THEN Panic
        ELSE LoopAt("start",
                    before.v \o "{{." \o ToUpper(paramPart.v) \o "}}" \o after.v,
                    0, 0)

FragmentPool ==
    {TextPiece("<< parameters."), TextPiece(" >>"), TextPiece("p"),
     TextPiece("<< parameters.a >>"), TextPiece(">> ")}

InitLoop ==
    /\ pSegs = <<>>
    /\ pResult = Nil
    /\ pWork = Nil
    /\ ConvIdle
    /\ NormIdle
    /\ MainIdle
    /\ NameIdle
    /\ ReportIdle

AddFragment ==
    /\ pWork = Nil
    /\ Len(pSegs) < MaxSegments
    /\ \E piece \in FragmentPool : pSegs' = Append(pSegs, piece)
    /\ UNCHANGED <<pResult, pWork>>
    /\ UNCHANGED <<convVars, previous, normVars, mainVars, nameVars, reportVars>>

\* result := cmd
EnterLoop ==
    /\ pWork = Nil
    /\ pWork' = LoopAt("start", Render(pSegs), 0, 0)
    /\ UNCHANGED <<pSegs, pResult>>
    /\ UNCHANGED <<convVars, previous, normVars, mainVars, nameVars, reportVars>>

\* start := strings.Index(result, "<< parameters."), and break if it is -1
FindStart ==
    /\ pWork.t = "loop"
    /\ pWork.pc = "start"
    /\ \E start \in {Index(pWork.result, "<< parameters.")} :
          pWork' = IF start = -1 THEN [pWork EXCEPT !.pc = "return"]
                   ELSE [pWork EXCEPT !.pc = "end", !.start = start]
    /\ UNCHANGED <<pSegs, pResult>>
    /\ UNCHANGED <<convVars, previous, normVars, mainVars, nameVars, reportVars>>

\* end := strings.Index(result[start:], " >>"), break if it is -1, end += start
FindEnd ==
    /\ pWork.t = "loop"
    /\ pWork.pc = "end"
    /\ \E end \in {closingIndex(pWork.result, pWork.start)} :
          pWork' = IF end = -1 THEN [pWork EXCEPT !.pc = "return"]
                   ELSE [pWork EXCEPT !.pc = "assign", !.end = end + pWork.start]
    /\ UNCHANGED <<pSegs, pResult>>
    /\ UNCHANGED <<convVars, previous, normVars, mainVars, nameVars, reportVars>>

\* the rest of the body of the loop
AssignResult ==
    /\ pWork.t = "loop"
    /\ pWork.pc = "assign"
    /\ pWork' = assignResult(pWork.result, pWork.start, pWork.end)
    /\ UNCHANGED <<pSegs, pResult>>
    /\ UNCHANGED <<convVars, previous, normVars, mainVars, nameVars, reportVars>>

\* return result
ReturnResult ==
    /\ pWork.t = "loop"
    /\ pWork.pc = "return"
    /\ pResult = Nil
    /\ pResult' = Str(pWork.result)
    /\ UNCHANGED <<pSegs, pWork>>
    /\ UNCHANGED <<convVars, previous, normVars, mainVars, nameVars, reportVars>>

NextLoop ==
    \/ AddFragment
    \/ EnterLoop
    \/ FindStart
    \/ FindEnd
    \/ AssignResult
    \/ ReturnResult

\* the function runs on: a statement that can be executed is executed
SpecLoop == InitLoop /\ [][NextLoop]_vars /\ WF_vars(NextLoop)

\* the number of occurrences of sub in s
RECURSIVE CountOf(_, _)
CountOf(s, sub) ==
    IF Len(s) < Len(sub) THEN 0
    ELSE (IF HasPrefix(s, sub) THEN 1 ELSE 0) + CountOf(Tail(s), sub)

\* C26: on every text the loop of convertParameterSyntax keeps its slice
\* indices in range, every iteration that does not leave the loop strictly
\* lowers the number of occurrences of "<< parameters." in result, and the
\* function returns.
C26_LoopTerminatesWithinBounds ==
    /\ [](pWork # Panic)
    /\ [][(pWork.t = "loop" /\ pWork.pc = "assign" /\ pWork'.t = "loop") =>
            CountOf(pWork'.result, "<< parameters.")
                < CountOf(pWork.result, "<< parameters.")]_vars
    /\ <>(pResult # Nil)

\* two markers and a name: the loop has gone round twice and has returned
C26_Witness ==
    /\ pSegs = <<TextPiece("<< parameters.a >>"), TextPiece("<< parameters.a >>"),
                 TextPiece("p")>>
    /\ pWork.t = "loop"
    /\ pWork.pc = "return"
    /\ pResult = Str("{{.A}}{{.A}}p")

(***************************************************************************)
(* main: the flags, the output directory, the input file, the conversion   *)
(* and the three files written.  mEnv holds the flags given and whether    *)
(* each file system operation and the YAML parser succeed.                 *)
(***************************************************************************)
MainEnvs ==
    [help : BOOLEAN, input : {"", "config.yml"}, mkdirOk : BOOLEAN,
     readOk : BOOLEAN, parseOk : BOOLEAN, writeConfigOk : BOOLEAN,
     writeTaskfileOk : BOOLEAN, reportOk : BOOLEAN]

InitMain ==
    /\ mPc = "flags"
    /\ mEnv \in MainEnvs
    /\ mExit = Nil
    /\ mOut = <<>>
    /\ mFiles = {}
    /\ ConvIdle
    /\ NormIdle
    /\ ParamIdle
    /\ NameIdle
    /\ ReportIdle

\* the next statement of main with what the call made on disk, or log.Fatal:
\* the message and os.Exit(1)
Proceed(ok, nextPc, message, made) ==
    /\ mPc' = IF ok THEN nextPc ELSE "exited"
    /\ mOut' = IF ok THEN mOut ELSE Append(mOut, "fatal: " \o message)
    /\ mExit' = IF ok THEN mExit ELSE 1
    /\ mFiles' = IF ok THEN mFiles \union made ELSE mFiles
    /\ UNCHANGED mEnv
    /\ UNCHANGED <<convVars, previous, normVars, paramVars, nameVars, reportVars>>

\* flag.Parse(), then showHelp() and return when -help is given or -input is not
ParseFlags ==
    /\ mPc = "flags"
    /\ IF mEnv.help \/ mEnv.input = ""
       THEN /\ mOut' = Append(mOut, "help")
            /\ mExit' = 0
            /\ mPc' = "exited"
       ELSE /\ mPc' = "mkdir"
            /\ UNCHANGED <<mOut, mExit>>
    /\ UNCHANGED <<mEnv, mFiles>>
    /\ UNCHANGED <<convVars, previous, normVars, paramVars, nameVars, reportVars>>

MkdirAll ==
    /\ mPc = "mkdir"
    /\ Proceed(mEnv.mkdirOk, "read", "Error creating output directory:",
               {"outputDir"})

ReadFile ==
    /\ mPc = "read"
    /\ Proceed(mEnv.readOk, "parse", "Error reading input file:", {})

Unmarshal ==
    /\ mPc = "parse"
    /\ Proceed(mEnv.parseOk, "convert", "Error parsing YAML:", {})

\* newConfig, taskfile := convertConfig(config), which cannot fail
CallConvertConfig ==
    /\ mPc = "convert"
    /\ Proceed(TRUE, "writeConfig", "", {})

WriteConfig ==
    /\ mPc = "writeConfig"
    /\ Proceed(mEnv.writeConfigOk, "writeTaskfile", "Error writing new config:",
               {"config.yml"})

WriteTaskfile ==
    /\ mPc = "writeTaskfile"
    /\ Proceed(mEnv.writeTaskfileOk, "report", "Error writing taskfile:",
               {"Taskfile.yml"})

\* generateTechnologyAnalysis: an error is logged and main goes on
WriteReport ==
    /\ mPc = "report"
    /\ mOut' = IF mEnv.reportOk THEN mOut
               ELSE Append(mOut, "Warning: Error generating technology analysis")
    /\ mFiles' = IF mEnv.reportOk THEN mFiles \union {"TECHNOLOGY_ANALYSIS.md"}
                 ELSE mFiles
    /\ mPc' = "success"
    /\ UNCHANGED <<mEnv, mExit>>
    /\ UNCHANGED <<convVars, previous, normVars, paramVars, nameVars, reportVars>>

\* showSuccess(...), and main returns
ShowSuccess ==
    /\ mPc = "success"
    /\ mOut' = Append(mOut, "success")
    /\ mExit' = 0
    /\ mPc' = "exited"
    /\ UNCHANGED <<mEnv, mFiles>>
    /\ UNCHANGED <<convVars, previous, normVars, paramVars, nameVars, reportVars>>

NextMain ==
    \/ ParseFlags
    \/ MkdirAll
    \/ ReadFile
    \/ Unmarshal
    \/ CallConvertConfig
    \/ WriteConfig
    \/ WriteTaskfile
    \/ WriteReport
    \/ ShowSuccess

SpecMain == InitMain /\ [][NextMain]_vars

Logged(prefix) == \E i \in 1..Len(mOut) : HasPrefix(mOut[i], prefix)

\* C20: without -help, a run without -input, a run whose input file cannot
\* be read and a run whose input does not parse each end as a fatal error with
\* a non-zero exit status; a run in which only the technology report
\* fails logs a warning and ends with the success message and status 0.
C20_InputErrorsFatalReportErrorWarning ==
    (mPc = "exited" /\ ~mEnv.help) =>
        /\ mEnv.input = "" => (mExit # 0 /\ Logged("fatal"))
        /\ (mEnv.input # "" /\ ~mEnv.readOk) => (mExit # 0 /\ Logged("fatal"))
        /\ (mEnv.input # "" /\ mEnv.readOk /\ ~mEnv.parseOk) =>
              (mExit # 0 /\ Logged("fatal"))
        /\ (/\ mEnv.input # ""
            /\ mEnv.mkdirOk /\ mEnv.readOk /\ mEnv.parseOk
            /\ mEnv.writeConfigOk /\ mEnv.writeTaskfileOk
            /\ ~mEnv.reportOk) =>
              /\ mExit = 0
              /\ Logged("Warning")
              /\ mOut[Len(mOut)] = "success"

\* main has not yet read and parsed the input
BeforeInputParsed == mPc \in {"flags", "mkdir", "read", "parse"}

\* C21: nothing is created or written on the output side, the output
\* directory included, before the input has been read and parsed, and a run
\* that aborts because reading or parsing the input fails leaves nothing
\* behind.
C21_NoOutputBeforeInputParsed ==
    /\ BeforeInputParsed => mFiles = {}
    /\ (mPc = "exited" /\ mExit = 1 /\ (~mEnv.readOk \/ ~mEnv.parseOk)
            /\ (Logged("fatal: Error reading") \/ Logged("fatal: Error parsing"))) =>
          mFiles = {}

(***************************************************************************)
(* The command lines and dependencies of a task, step by step.             *)
(***************************************************************************)
\* the steps of the job among the first i that yield a dependency
DepStepsUpTo(j, i) == {k \in 1..i : YieldsDep(StepsOfJob(j)[k])}

\* the dependency of the job's task that step i yields
JobDep(j, i) == tasks[j].Deps[Cardinality(DepStepsUpTo(j, i))]

\* C24: the task of a job has as many command lines and dependencies together
\* as the job has steps, the command lines in the order of the steps that
\* yield them (and the dependencies in the order of theirs); the task of a
\* reusable command has one command line for every step, in the order of
\* the steps.
C24_OneLineOrDependencyPerStepInOrder ==
    Done =>
        /\ \A j \in DOMAIN config.Jobs :
              JobTaskKept(j) =>
                  LET steps == StepsOfJob(j)
                  IN  /\ Len(tasks[j].Cmds) + Len(tasks[j].Deps) = Len(steps)
                      /\ Len(tasks[j].Deps) = Cardinality(DepStepsUpTo(j, Len(steps)))
                      /\ \A i \in 1..Len(steps) :
                            \E out \in stepOutcomes(steps[i], patterns,
                                                    config.Commands) :
                                IF YieldsDep(steps[i])
                                THEN out.deps = <<JobDep(j, i)>>
                                ELSE out.cmds = <<JobLine(j, i)>>
        /\ \A c \in DOMAIN config.Commands :
              CommandTaskKept(c) =>
                  LET steps == config.Commands[c].Steps
                  IN  /\ Len(tasks[c].Cmds) = Len(steps)
                      /\ \A i \in 1..Len(steps) :
                            tasks[c].Cmds[i] \in commandStepOutcomes(steps[i])

\* job b takes its two lines from its two run steps, and the task of the
\* reusable command c its two lines from the two steps of c
C24_Witness ==
    /\ Done
    /\ "b" \in DOMAIN config.Jobs
    /\ JobTaskKept("b")
    /\ Len(StepsOfJob("b")) = 2
    /\ tasks["b"].Cmds = <<"b -x", "b -y">>
    /\ CommandTaskKept("c")
    /\ tasks["c"].Cmds = <<"git checkout HEAD", "m {{.P}}">>

\* C25: no task names the same dependency twice, also when a job runs a
\* hoisted command several times or invokes the same reusable command
\* several times.
C25_DepsHoldNoNameTwice ==
    Done =>
        \A t \in DOMAIN tasks :
            \A m, n \in 1..Len(tasks[t].Deps) :
                tasks[t].Deps[m] = tasks[t].Deps[n] => m = n

(***************************************************************************)
(* String steps of a job, with and without a reusable command of the same  *)
(* name, "checkout" among the names.                                       *)
(***************************************************************************)
StringStepPool == {Str("checkout"), Str("lint"), Str("deploy"), RunStep("make")}

StringsConfigs ==
    {Config("2.1", "b" :> Job(Nil, <<>>, Nil, Nil, steps, Nil), commands,
            Workflows, Nil) :
        steps \in SeqsUpTo(StringStepPool, MaxSteps),
        commands \in MapsOver({"checkout", "deploy"},
                              {Command("", Nil, <<RunStep("make")>>)})}

InitStrings ==
    /\ config \in StringsConfigs
    /\ pc = "start"
    /\ commandCounts = EmptyMap
    /\ countsTodo = {}
    /\ patterns = EmptyMap
    /\ tasks = EmptyMap
    /\ jobsTodo = {}
    /\ newConfig = NoConfig
    /\ taskEnv = Nil
    /\ previous = Nil
    /\ NormIdle
    /\ ParamIdle
    /\ MainIdle
    /\ NameIdle
    /\ ReportIdle

SpecStrings == InitStrings /\ [][Next]_vars

\* C27: a string step of a job that is the name of a declared reusable
\* command yields a dependency on it, also when the string is "checkout";
\* where no such command is declared, "checkout" yields the line
\* "git checkout HEAD" and any other string a commented-out line.
C27_DeclaredCommandBeforeBuiltIn ==
    Done =>
        \A j \in DOMAIN config.Jobs :
            JobTaskKept(j) =>
                LET steps == StepsOfJob(j)
                IN  /\ Len(tasks[j].Deps) = Cardinality(DepStepsUpTo(j, Len(steps)))
                    /\ Len(tasks[j].Cmds) + Len(tasks[j].Deps) = Len(steps)
                    /\ \A i \in 1..Len(steps) :
                          IsStr(steps[i]) =>
                              IF steps[i].v \in DOMAIN config.Commands
                              THEN JobDep(j, i) = steps[i].v
                              ELSE IF steps[i].v = "checkout"
                                   THEN JobLine(j, i) = "git checkout HEAD"
                                   ELSE IsComment(JobLine(j, i))

\* job b checks out with the reusable command checkout and then names lint,
\* which is not declared
C27_Witness ==
    /\ Done
    /\ "checkout" \in DOMAIN config.Commands
    /\ StepsOfJob("b") = <<Str("checkout"), Str("lint")>>
    /\ tasks["b"].Deps = <<"checkout">>
    /\ tasks["b"].Cmds = <<"# task lint">>

(***************************************************************************)
(* generateTaskName on its own: a command is put together from words of a  *)
(* pool holding flags, common words in both cases and other words, and the *)
(* function is applied to it.                                              *)
(***************************************************************************)
MaxWords == 4

WordPool == {"npm", "-g", "The", "of", "test"}

InitName ==
    /\ gWords = <<>>
    /\ gResult = Nil
    /\ ConvIdle
    /\ NormIdle
    /\ ParamIdle
    /\ MainIdle
    /\ ReportIdle

AddWord ==
    /\ gResult = Nil
    /\ Len(gWords) < MaxWords
    /\ \E word \in WordPool : gWords' = Append(gWords, word)
    /\ UNCHANGED gResult
    /\ UNCHANGED <<convVars, previous, normVars, paramVars, mainVars, reportVars>>

GenerateTaskName ==
    /\ gResult = Nil
    /\ gResult' = Str(generateTaskName(Join(gWords, " ")))
    /\ UNCHANGED gWords
    /\ UNCHANGED <<convVars, previous, normVars, paramVars, mainVars, reportVars>>

NextName ==
    \/ AddWord
    \/ GenerateTaskName

SpecName == InitName /\ [][NextName]_vars

Survives(word) == ~HasPrefix(word, "-") /\ ~isCommonWord(word)

\* C22: the name is made of the first three words of the command that are
\* neither flags nor common words, fewer if fewer survive, joined with
\* hyphens; it is "common-task" exactly when no word survives.
C22_FirstThreeSurvivingWords ==
    gResult # Nil =>
        LET surviving == SelectSeq(gWords, Survives)
            kept == SubSeq(surviving, 1, IF Len(surviving) < 3 THEN Len(surviving)
                                         ELSE 3)
        IN  /\ (gResult.v = "common-task") <=> (surviving = <<>>)
            /\ surviving # <<>> => gResult.v = Join(kept, "-")

(***************************************************************************)
(* extractAllCommands: the command lines of the run steps of the jobs and  *)
(* of the reusable commands, cleaned and counted, as a slice sorted by the *)
(* function's own nested loops.                                            *)
(***************************************************************************)

\* strings.Split, for a non-empty sep
RECURSIVE SplitFrom(_, _, _)
SplitFrom(s, sep, cur) ==
    IF s = "" THEN <<cur>>
    ELSE IF HasPrefix(s, sep)
         THEN <<cur>> \o SplitFrom(SubSeq(s, Len(sep) + 1, Len(s)), sep, "")
         ELSE SplitFrom(Tail(s), sep, cur \o Char(s, 1))

Split(s, sep) == SplitFrom(s, sep, "")

\* the parts that are neither empty nor comments, trimmed
RECURSIVE keptParts(_)
keptParts(parts) ==
    IF parts = <<>> THEN <<>>
    ELSE LET part == TrimSpace(parts[1]) IN
         IF part # "" /\ ~HasPrefix(part, "#")
         THEN <<part>> \o keptParts(Tail(parts))
         ELSE keptParts(Tail(parts))

RECURSIVE partsOfLines(_)
partsOfLines(lines) ==
    IF lines = <<>> THEN <<>>
    ELSE keptParts(Split(lines[1], "&&")) \o partsOfLines(Tail(lines))

extractIndividualCommands(cmd) == partsOfLines(Split(cmd, "\n"))

\* the last position of the match of envRegex that starts at position i, or 0:
\* "$" and the longest run of [A-Z0-9_] after a first [A-Z_], or the same in
\* braces
analysisEnvMatchAt(s, i) ==
    IF Char(s, i) # "$" THEN 0
    ELSE IF i + 1 <= Len(s) /\ NameStart(Char(s, i + 1)) THEN nameEnd(s, i + 1)
    ELSE IF i + 2 <= Len(s) /\ Char(s, i + 1) = "{" /\ NameStart(Char(s, i + 2))
              /\ LET e == nameEnd(s, i + 2)
                 IN  e + 1 <= Len(s) /\ Char(s, e + 1) = "}"
         THEN nameEnd(s, i + 2) + 1
         ELSE 0

\* envRegex.ReplaceAllString(cleaned, "${VAR}"): in the replacement "${VAR}"
\* stands for the submatch named VAR, which envRegex does not have, and
\* expands to the empty string, so that every match is removed
RECURSIVE replaceEnvFrom(_, _)
replaceEnvFrom(s, i) ==
    IF i > Len(s) THEN ""
    ELSE LET last == analysisEnvMatchAt(s, i) IN
         IF last = 0 THEN Char(s, i) \o replaceEnvFrom(s, i + 1)
         ELSE replaceEnvFrom(s, last + 1)

cleanCommandForAnalysis(cmd) ==
    LET cleaned == TrimSpace(replaceEnvFrom(convertParameterSyntax(cmd), 1))
    IN  IF Len(cleaned) < 3 THEN "" ELSE cleaned

\* commandCounts[cleanCmd]++ for every sub-command of cmds that is not cleaned
\* to ""
RECURSIVE countSubCommands(_, _)
countSubCommands(counts, cmds) ==
    IF cmds = <<>> THEN counts
    ELSE LET cleanCmd == cleanCommandForAnalysis(cmds[1])
             counted == IF cleanCmd = "" THEN counts
                        ELSE IF cleanCmd \in DOMAIN counts
                             THEN [counts EXCEPT ![cleanCmd] = @ + 1]
                             ELSE counts @@ (cleanCmd :> 1)
         IN  countSubCommands(counted, Tail(cmds))

RECURSIVE countAnalysisSteps(_, _)
countAnalysisSteps(counts, steps) ==
    IF steps = <<>> THEN counts
    ELSE LET cmd == extractCommand(steps[1]) IN
         countAnalysisSteps(IF cmd # ""
                            THEN countSubCommands(counts,
                                                  extractIndividualCommands(cmd))
                            ELSE counts,
                            Tail(steps))

\* the loop over the jobs, and the loop over the reusable commands: the counts
\* do not depend on the order in which the map is ranged over
RECURSIVE countOwners(_, _, _)
countOwners(counts, owners, names) ==
    IF names = {} THEN counts
    ELSE LET name == CHOOSE n \in names : TRUE IN
         countOwners(countAnalysisSteps(counts, owners[name].Steps), owners,
                     names \ {name})

analysisCounts(cfg) ==
    countOwners(countOwners(EmptyMap, cfg.Jobs, DOMAIN cfg.Jobs),
                cfg.Commands, DOMAIN cfg.Commands)

CommandInfo(command, count) == [Command |-> command, Count |-> count]

\* the bytes of command texts in ascending order: tab, line feed and the
\* printable ASCII characters but the grave accent
ByteOrder ==
    "\t\n !\"#$%&'()*+,-./0123456789:;<=>?@ABCDEFGHIJKLMNOPQRSTUVWXYZ[\\]^_abcdefghijklmnopqrstuvwxyz{|}~"

ByteRank(c) == CHOOSE i \in 1..Len(ByteOrder) : Char(ByteOrder, i) = c

\* a > b on Go strings: the comparison of the bytes, a proper prefix first
RECURSIVE StringGreater(_, _)
StringGreater(a, b) ==
    IF a = "" THEN FALSE
    ELSE IF b = "" THEN TRUE
    ELSE IF Char(a, 1) = Char(b, 1) THEN StringGreater(Tail(a), Tail(b))
    ELSE ByteRank(Char(a, 1)) > ByteRank(Char(b, 1))

\* the condition under which commands[i] and commands[j] are exchanged
swapNeededByCountOnly(a, b) == a.Count < b.Count

swapNeeded(a, b) ==
    \/ a.Count < b.Count
    \/ (a.Count = b.Count /\ StringGreater(a.Command, b.Command))

swapped(commands, i, j) ==
    [commands EXCEPT ![i] = commands[j], ![j] = commands[i]]

\* for j := i + 1; j < len(commands); j++, with positions counted from 1
RECURSIVE sortInner(_, _, _)
sortInner(commands, i, j) ==
    IF j > Len(commands) THEN commands
    ELSE sortInner(IF swapNeeded(commands[i], commands[j])
                   THEN swapped(commands, i, j) ELSE commands,
                   i, j + 1)

\* for i := 0; i < len(commands); i++
RECURSIVE sortOuter(_, _)
sortOuter(commands, i) ==
    IF i > Len(commands) THEN commands
    ELSE sortOuter(sortInner(commands, i, i + 1), i + 1)

\* run steps of several command lines, with comments, a line too short to be
\* kept, a marker and environment variables, and a step that is not a run step
AnalysisStepPool ==
    {RunStep("make b && make a"),
     RunStep("make a\n# note\nls"),
     RunStep("make $CI_X b && go $A"),
     RunCommandStep("make << parameters.t >>\n\nmake b"),
     Str("checkout")}

AnalysisConfigs ==
    {Config("2.1", "b" :> Job("", Nil, Nil, EmptyMap, steps, EmptyMap), commands,
            Nil, Nil) :
        steps \in SeqsUpTo(AnalysisStepPool, MaxSteps),
        commands \in {EmptyMap} \cup
                     {"c" :> Command("", EmptyMap, <<step>>) :
                          step \in AnalysisStepPool}}

InitReport ==
    /\ config \in AnalysisConfigs
    /\ pc = "idle"
    /\ commandCounts = EmptyMap
    /\ countsTodo = {}
    /\ patterns = EmptyMap
    /\ tasks = EmptyMap
    /\ jobsTodo = {}
    /\ newConfig = NoConfig
    /\ taskEnv = Nil
    /\ previous = Nil
    /\ aPc = "count"
    /\ aCounts = EmptyMap
    /\ aTodo = {}
    /\ aCommands = <<>>
    /\ NormIdle
    /\ ParamIdle
    /\ MainIdle
    /\ NameIdle

\* the two counting loops
CountAnalysisCommands ==
    /\ aPc = "count"
    /\ aCounts' = analysisCounts(config)
    /\ aTodo' = DOMAIN analysisCounts(config)
    /\ aPc' = "range"
    /\ UNCHANGED aCommands
    /\ UNCHANGED <<convVars, previous, normVars, paramVars, mainVars, nameVars>>

\* one iteration of the loop over commandCounts, in the order of the map
AppendCommandInfo ==
    /\ aPc = "range"
    /\ \E cmd \in aTodo :
          /\ aCommands' = Append(aCommands, CommandInfo(cmd, aCounts[cmd]))
          /\ aTodo' = aTodo \ {cmd}
    /\ UNCHANGED <<aPc, aCounts>>
    /\ UNCHANGED <<convVars, previous, normVars, paramVars, mainVars, nameVars>>

\* the nested loops that sort the slice, and the return
SortCommands ==
    /\ aPc = "range"
    /\ aTodo = {}
    /\ aCommands' = sortOuter(aCommands, 1)
    /\ aPc' = "returned"
    /\ UNCHANGED <<aCounts, aTodo>>
    /\ UNCHANGED <<convVars, previous, normVars, paramVars, mainVars, nameVars>>

NextReport ==
    \/ CountAnalysisCommands
    \/ AppendCommandInfo
    \/ SortCommands

SpecReport == InitReport /\ [][NextReport]_vars

\* every cleaned command line of every run step of the jobs and of the reusable
\* commands, as <<kind, owner, step, line>> with the text it is cleaned to
ExtractedFrom(owners, kind) ==
    UNION {UNION {LET lines == extractIndividualCommands(
                                   extractCommand(owners[o].Steps[i]))
                  IN  {<<kind, o, i, k, cleanCommandForAnalysis(lines[k])>> :
                          k \in 1..Len(lines)} :
                     i \in 1..Len(owners[o].Steps)} : o \in DOMAIN owners}

Extracted ==
    {e \in ExtractedFrom(config.Jobs, "job")
             \cup ExtractedFrom(config.Commands, "command") : e[5] # ""}

UsageOf(cmd) == Cardinality({e \in Extracted : e[5] = cmd})

RankedBefore(a, b) ==
    \/ a.Count > b.Count
    \/ (a.Count = b.Count /\ StringGreater(b.Command, a.Command))

\* C23: the returned list holds every distinct extracted command exactly once,
\* with the number of its uses over the jobs and the reusable commands, and
\* nothing else, and it is sorted by descending count and, among equal counts,
\* by ascending text, whatever order the map was ranged over.
C23_EachCommandOnceCountedAndSorted ==
    aPc = "returned" =>
        /\ \A e \in Extracted :
              Cardinality({i \in 1..Len(aCommands) :
                              aCommands[i].Command = e[5]}) = 1
        /\ \A i \in 1..Len(aCommands) :
              /\ \E e \in Extracted : e[5] = aCommands[i].Command
              /\ aCommands[i].Count = UsageOf(aCommands[i].Command)
        /\ \A i \in 1..(Len(aCommands) - 1) :
              RankedBefore(aCommands[i], aCommands[i + 1])

\* a list of four commands, one used by the job and by the reusable command,
\* the others used once each
C23_Witness ==
    /\ aPc = "returned"
    /\ aCommands = <<CommandInfo("make b", 2), CommandInfo("make  b", 1),
                     CommandInfo("make a", 1), CommandInfo("make {{.T}}", 1)>>
    /\ \E e \in Extracted : e[1] = "command" /\ e[5] = "make b"

====
